---- MODULE Spec2Model ----
(***************************************************************************)
(* A model of node-bridge (src/node-bridge/src/lib.rs): the line reader,  *)
(* the dispatcher task that owns receive_map / function_map /             *)
(* waiting_params, the per-function workers, and the public operations    *)
(* send / receive / register / register_async / close / is_closed.        *)
(*                                                                         *)
(* Text is modelled as a sequence of tokens.  A token is a maximal run of *)
(* letters ("torust", "bridge", ...), one decimal digit, or one           *)
(* punctuation / white-space character ("_", "[", "]", " ", "LF").  Every *)
(* pattern the code searches for is a token sequence, so split_once,      *)
(* ends_with, replace, trim and parse are computed as the code computes   *)
(* them, on tokens instead of bytes.                                       *)
(***************************************************************************)
EXTENDS Integers, Sequences, FiniteSets, TLC

(***************************************************************************)
(* Bounds of the model.                                                    *)
(***************************************************************************)
MaxLines == 2
MaxReceives == 2
MaxSends == 1
MaxRegs == 1
MaxFnLines == 3

(***************************************************************************)
(* Text primitives of the Rust standard library used by lib.rs.            *)
(***************************************************************************)
Whitespace == {" ", "LF"}

Digits == <<"0", "1", "2", "3", "4", "5", "6", "7", "8", "9">>

I32Max == (2^30 - 1) + 2^30

NoSplit == [ok |-> FALSE, l |-> <<>>, r |-> <<>>]

\* Index of the first occurrence of pat in s, 0 when there is none.
Find(s, pat) ==
    LET C == {i \in 1..(Len(s) - Len(pat) + 1) : SubSeq(s, i, i + Len(pat) - 1) = pat}
    IN  IF C = {} THEN 0 ELSE CHOOSE i \in C : \A j \in C : i <= j

\* str::split_once: the text before and after the first occurrence of pat.
SplitOnce(s, pat) ==
    LET i == Find(s, pat)
    IN  IF i = 0 THEN NoSplit
        ELSE [ok |-> TRUE, l |-> SubSeq(s, 1, i - 1), r |-> SubSeq(s, i + Len(pat), Len(s))]

\* str::ends_with
EndsWith(s, suf) ==
    /\ Len(s) >= Len(suf)
    /\ SubSeq(s, Len(s) - Len(suf) + 1, Len(s)) = suf

\* str::replace(pat, ""): every non-overlapping occurrence removed, left to right.
RECURSIVE Remove(_, _)
Remove(s, pat) ==
    LET i == Find(s, pat)
    IN  IF i = 0 THEN s
        ELSE SubSeq(s, 1, i - 1) \o Remove(SubSeq(s, i + Len(pat), Len(s)), pat)

\* str::trim: leading and trailing white space removed.
RECURSIVE TrimStart(_)
TrimStart(s) ==
    IF s # <<>> /\ Head(s) \in Whitespace THEN TrimStart(Tail(s)) ELSE s

RECURSIVE TrimEnd(_)
TrimEnd(s) ==
    IF s # <<>> /\ s[Len(s)] \in Whitespace THEN TrimEnd(SubSeq(s, 1, Len(s) - 1)) ELSE s

Trim(s) == TrimEnd(TrimStart(s))

DigitVal(t) == (CHOOSE i \in 1..10 : Digits[i] = t) - 1

IsDigit(t) == \E i \in 1..10 : Digits[i] = t

RECURSIVE DigitsVal(_)
DigitsVal(s) ==
    IF s = <<>> THEN 0 ELSE 10 * DigitsVal(SubSeq(s, 1, Len(s) - 1)) + DigitVal(s[Len(s)])

NoParse == [ok |-> FALSE, val |-> 0]

\* <i32 as FromStr>::from_str: an optional sign, then one or more digits, in range.
ParseI32(s) ==
    LET signed == s # <<>> /\ Head(s) \in {"-", "+"}
        ds     == IF signed THEN Tail(s) ELSE s
        neg    == signed /\ Head(s) = "-"
    IN  IF ds = <<>> \/ \E i \in 1..Len(ds) : ~IsDigit(ds[i]) THEN NoParse
        ELSE LET v == IF neg THEN 0 - DigitsVal(ds) ELSE DigitsVal(ds)
             IN  IF v > I32Max \/ v < 0 - I32Max - 1 THEN NoParse
                 ELSE [ok |-> TRUE, val |-> v]

RECURSIVE NatToString(_)
NatToString(n) ==
    IF n < 10 THEN <<Digits[n + 1]>> ELSE NatToString(n \div 10) \o <<Digits[(n % 10) + 1]>>

\* <i32 as ToString>::to_string
I32ToString(n) == IF n < 0 THEN <<"-">> \o NatToString(0 - n) ELSE NatToString(n)

(***************************************************************************)
(* The wire grammar.  Incoming lines are what the dispatcher's parser     *)
(* (lib.rs 98-140, 172, 193) takes apart; outgoing records are what the   *)
(* println! calls write.                                                   *)
(***************************************************************************)
BridgeEndLine == <<"[", "bridgeendline", "]">>

OutEndLine == <<"[", "_", "bridgeendline", "]">>

NoArgText == <<"noarg">>

NameOpen == <<"bridge", "_", "name", "[">>

NameClose == <<"]", "_", "end", "_", "name">>

IdOpen == <<"_", "bridge", "_", "id", "[">>

IdClose == <<"]", "_", "end", "_", "id">>

ArgOpen == <<"_", "bridge", "_", "arg", "[">>

ArgClose == <<"]", "_", "end", "_", "arg">>

ExitSentinel == <<"[", "bridgeexit", "]", "_">>

TorustLine(c, v) == <<"torust", "_", "_">> \o NameOpen \o c \o NameClose \o v \o <<"LF">>

FunctionLine(n, id, arg) ==
    <<"function", "_", "_">> \o NameOpen \o n \o NameClose
        \o IdOpen \o id \o IdClose \o ArgOpen \o arg \o ArgClose \o <<"LF">>

ParamLine(id, chunk) == <<"param", "_">> \o id \o <<"_">> \o chunk \o <<"LF">>

ExitLine == ExitSentinel \o <<"LF">>

SendRecord(c, d) == <<"tonode", "_", "_">> \o NameOpen \o c \o NameClose \o d \o OutEndLine

RegisterRecord(n) == <<"fnregister", "_">> \o n \o OutEndLine

ResponseRecord(id, res) == <<"fnresponse", "_">> \o id \o <<"_">> \o res \o OutEndLine

ExitRecord == <<"_", "bridge", "_", "exit">> \o OutEndLine

(***************************************************************************)
(* The dispatcher's parser: what the ReadLine arm extracts from a line, or *)
(* "panic" where one of its unwrap() calls meets None, or "drop" for the   *)
(* catch-all arm.                                                          *)
(***************************************************************************)
Decoded(k, n, i, a) == [kind |-> k, name |-> n, id |-> i, arg |-> a]

DecodePanic == Decoded("panic", <<>>, <<>>, <<>>)

DecodeTorust(data) ==
    LET a == SplitOnce(data, <<"torust", "_", "_">> \o NameOpen)
    IN  IF ~a.ok THEN DecodePanic
        ELSE LET n_v == SplitOnce(a.r, NameClose)
             IN  IF ~n_v.ok THEN DecodePanic
                 ELSE Decoded("torust", n_v.l, <<>>, n_v.r)

\* The text between the first `open` and the first `close` after it.
Field(s, open, close) ==
    LET a == SplitOnce(s, open)
    IN  IF ~a.ok THEN NoSplit ELSE SplitOnce(a.r, close)

DecodeFunction(rest) ==
    LET second == SplitOnce(rest, <<"_">>)
    IN  IF ~second.ok THEN DecodePanic
        ELSE LET name == Field(second.r, NameOpen, NameClose)
                 id   == Field(second.r, IdOpen, IdClose)
                 arg  == Field(second.r, ArgOpen, ArgClose)
             IN  IF ~name.ok \/ ~id.ok \/ ~arg.ok THEN DecodePanic
                 ELSE Decoded("function", name.l, id.l, arg.l)

DecodeParam(rest) ==
    LET p == SplitOnce(rest, <<"_">>)
    IN  IF ~p.ok THEN DecodePanic ELSE Decoded("param", <<>>, p.l, p.r)

Decode(data) ==
    LET splitted == SplitOnce(data, <<"_">>)
    IN  IF ~splitted.ok THEN DecodePanic
        ELSE CASE splitted.l = <<"torust">> -> DecodeTorust(data)
               [] splitted.l = <<"function">> -> DecodeFunction(splitted.r)
               [] splitted.l = <<"param">> -> DecodeParam(splitted.r)
               [] splitted.l = <<"[", "bridgeexit", "]">> -> Decoded("exit", <<>>, <<>>, <<>>)
               [] OTHER -> Decoded("drop", <<>>, <<>>, <<>>)

(***************************************************************************)
(* State.                                                                  *)
(*   util_queue, util_closed  the unbounded channel behind util_sender /   *)
(*                            util_receiver: queued UtilType messages and  *)
(*                            whether the receiving half is closed         *)
(*   dpc                      the dispatcher task: "recv" in its loop,     *)
(*                            "break" after util_receiver.close(),         *)
(*                            "unwind" while a panic drops its locals,     *)
(*                            "done" once the task's state is dropped      *)
(*   receive_map, function_map, waiting_params   the dispatcher's maps     *)
(*   rpc, nread               the line reader thread and the lines it read *)
(*   calls                    one entry per receive() call: its channel,   *)
(*                            where its oneshot sender is, the payload     *)
(*   sends                    one entry per send() call: its result        *)
(*   stdout                   the records written by println!              *)
(*   closeSt                  the task calling close()                     *)
(*   workers                  one entry per spawned function worker        *)
(*   regpc                    the task inside register / register_async    *)
(*   fnhist                   history: the function-call messages the      *)
(*                            dispatcher has handled, in order             *)
(*   completed                history: the calls the dispatcher completed  *)
(*                            and the queue it handed each to (0: none)    *)
(***************************************************************************)
VARIABLES util_queue, util_closed, dpc, receive_map, function_map, waiting_params,
          rpc, nread, calls, sends, stdout, closeSt, workers, regpc, fnhist, completed

vars == <<util_queue, util_closed, dpc, receive_map, function_map, waiting_params,
          rpc, nread, calls, sends, stdout, closeSt, workers, regpc, fnhist, completed>>

dispatcherVars == <<util_queue, util_closed, dpc, receive_map, function_map, waiting_params>>


EmptyMap == [x \in {} |-> 0]

\* HashMap::insert
MapInsert(m, k, v) == [x \in DOMAIN m \cup {k} |-> IF x = k THEN v ELSE m[x]]

\* HashMap::remove
MapRemove(m, k) == [x \in DOMAIN m \ {k} |-> m[x]]

ReadLineMsg(data, ann) == [type |-> "ReadLine", data |-> data, ref |-> 0, ann |-> ann]

ReceiveMsg(name, k) == [type |-> "Receive", data |-> name, ref |-> k, ann |-> {}]

RegisterFunctionMsg(name, w) == [type |-> "RegisterFunction", data |-> name, ref |-> w, ann |-> {}]

\* Mutant of UtilSend: the message is put in front of those already queued.
UtilSend_Front(m) == IF util_closed THEN util_queue ELSE <<m>> \o util_queue

\* UnboundedSender::send: the message is queued unless the receiver is closed.
UtilSend(m) == IF util_closed THEN util_queue ELSE Append(util_queue, m)

\* Function names whose registration announcement is on stdout.
Announced ==
    {SubSeq(stdout[i], 3, Len(stdout[i]) - Len(OutEndLine)) :
        i \in {j \in 1..Len(stdout) : stdout[j][1] = "fnregister"}}

Init ==
    /\ util_queue = <<>>
    /\ util_closed = FALSE
    /\ dpc = "recv"
    /\ receive_map = EmptyMap
    /\ function_map = EmptyMap
    /\ waiting_params = EmptyMap
    /\ rpc = "loop"
    /\ nread = 0
    /\ calls = <<>>
    /\ sends = <<>>
    /\ stdout = <<>>
    /\ closeSt = "idle"
    /\ workers = <<>>
    /\ regpc = [st |-> "idle", name |-> <<>>, handler |-> ""]
    /\ fnhist = <<>>
    /\ completed = <<>>

(***************************************************************************)
(* The line reader thread (lib.rs 209-218): one iteration per line that    *)
(* stdin yields.                                                           *)
(***************************************************************************)
\* A ReadLine message carries in `ref` the number of its line on stdin, for
\* the properties; the dispatcher never looks at it.
ReadLine(Lines, max) ==
    /\ rpc = "loop"
    /\ nread < max
    /\ \E input \in Lines :
          LET trimmed == Trim(input)
          IN  /\ util_queue' = UtilSend([ReadLineMsg(trimmed, Announced) EXCEPT !.ref = nread + 1])
              /\ rpc' = IF trimmed = ExitSentinel THEN "done" ELSE "loop"
    /\ nread' = nread + 1
    /\ UNCHANGED <<util_closed, dpc, receive_map, function_map, waiting_params,
                   calls, sends, stdout, closeSt, workers, regpc, fnhist, completed>>

(***************************************************************************)
(* The public operations on channels and the lifecycle.                    *)
(***************************************************************************)
\* is_closed (lib.rs 251-256)
is_closed == util_closed

\* What a receive() call returns, from where its oneshot sender is.
Outcome(call) ==
    CASE call.st = "sent" -> "Ok"
      [] call.st = "dropped" -> "BridgeClosedError"
      [] OTHER -> "suspended"

NewCall(c, st) ==
    [ch |-> c, st |-> st, val |-> <<>>, repl |-> FALSE, late |-> closeSt = "returned"]

\* send (lib.rs 229-243)
send(channel_name, data) ==
    /\ Len(sends) < MaxSends
    /\ IF is_closed
       THEN /\ sends' = Append(sends, [late |-> closeSt = "returned", res |-> "BridgeClosedError"])
            /\ stdout' = stdout
       ELSE /\ sends' = Append(sends, [late |-> closeSt = "returned", res |-> "Ok"])
            /\ stdout' = Append(stdout, SendRecord(channel_name, data))
    /\ UNCHANGED <<dispatcherVars, rpc, nread, calls, closeSt, workers, regpc, fnhist, completed>>

\* Where the oneshot sender of a receive() call is once util_sender.send has
\* returned: inside the queued message, or, when the send failed, inside the
\* SendError that `let _ = &...` keeps alive until receive's body ends.
SenderAfterSend == IF util_closed THEN "self" ELSE "queued"

\* receive (lib.rs 271-280), up to its await
receive(channel_name) ==
    /\ Len(calls) < MaxReceives
    /\ calls' = Append(calls, NewCall(channel_name, SenderAfterSend))
    /\ util_queue' = UtilSend(ReceiveMsg(channel_name, Len(calls) + 1))
    /\ UNCHANGED <<util_closed, dpc, receive_map, function_map, waiting_params,
                   rpc, nread, sends, stdout, closeSt, workers, regpc, fnhist, completed>>

\* close (lib.rs 259-262): the println, then the await on closed()
close ==
    /\ closeSt = "idle"
    /\ closeSt' = "waiting"
    /\ stdout' = Append(stdout, ExitRecord)
    /\ UNCHANGED <<dispatcherVars, rpc, nread, calls, sends, workers, regpc, fnhist, completed>>

closeReturn ==
    /\ closeSt = "waiting"
    /\ util_closed
    /\ closeSt' = "returned"
    /\ UNCHANGED <<dispatcherVars, rpc, nread, calls, sends, stdout, workers, regpc, fnhist, completed>>

(***************************************************************************)
(* The dispatcher task (lib.rs 91-208).  Dispatch is one iteration of its  *)
(* loop: one message taken from the channel and handled by its arm.        *)
(***************************************************************************)
\* Every oneshot sender held in one of `places` is dropped.
DropSenders(cs, places) ==
    [k \in 1..Len(cs) |-> IF cs[k].st \in places THEN [cs[k] EXCEPT !.st = "dropped"] ELSE cs[k]]

\* UnboundedSender::send on a worker's queue: lost when the worker's receiver is gone.
Forward(w, list) ==
    IF workers[w].st \in {"dead", "exit"} THEN workers
    ELSE [workers EXCEPT ![w].q = Append(@, list)]

\* function_map.get(name), then send (lib.rs 142-147, 150-159, 179-184)
ForwardByName(name, list, ann) ==
    LET to == IF name \in DOMAIN function_map THEN function_map[name] ELSE 0
    IN  /\ workers' = IF to = 0 THEN workers ELSE Forward(to, list)
        /\ completed' = Append(completed, [name |-> name, list |-> list, to |-> to,
                                           at |-> Len(fnhist) + 1, ann |-> ann])

\* Mutant of OnTorust: the waiter is looked up with get and stays in receive_map.
OnTorust_Peek(name, value) ==
    /\ IF name \in DOMAIN receive_map
       THEN /\ receive_map' = receive_map
            /\ calls' = [calls EXCEPT ![receive_map[name]].st = "sent",
                                      ![receive_map[name]].val = value]
       ELSE UNCHANGED <<receive_map, calls>>
    /\ UNCHANGED <<util_closed, dpc, function_map, waiting_params, workers, completed>>

\* Mutant of OnTorust: without a waiter in receive_map the value goes to a receive
\* of the channel whose registration is still queued.
OnTorust_ReachesLater(name, value) ==
    /\ IF name \in DOMAIN receive_map
       THEN /\ receive_map' = MapRemove(receive_map, name)
            /\ calls' = [calls EXCEPT ![receive_map[name]].st = "sent",
                                      ![receive_map[name]].val = value]
       ELSE /\ receive_map' = receive_map
            /\ calls' = [k \in 1..Len(calls) |->
                            IF calls[k].st = "queued" /\ calls[k].ch = name
                            THEN [calls[k] EXCEPT !.st = "sent", !.val = value]
                            ELSE calls[k]]
    /\ UNCHANGED <<util_closed, dpc, function_map, waiting_params, workers, completed>>

\* "torust" arm (lib.rs 100-117).  The loop removes the channel's waiter and
\* fulfils it; its next iteration finds nothing under the key and breaks.
OnTorust(name, value) ==
    /\ IF name \in DOMAIN receive_map
       THEN /\ receive_map' = MapRemove(receive_map, name)
            /\ calls' = [calls EXCEPT ![receive_map[name]].st = "sent",
                                      ![receive_map[name]].val = value]
       ELSE UNCHANGED <<receive_map, calls>>
    /\ UNCHANGED <<util_closed, dpc, function_map, waiting_params, workers, completed>>

\* "function" arm (lib.rs 118-170)
OnFunction(name, id, arg, ann) ==
    /\ IF arg = NoArgText
       THEN /\ ForwardByName(name, <<id>>, ann)
            /\ waiting_params' = waiting_params
       ELSE IF EndsWith(arg, BridgeEndLine)
       THEN /\ ForwardByName(name, <<id, Remove(arg, BridgeEndLine)>>, ann)
            /\ waiting_params' = waiting_params
       ELSE /\ waiting_params' = MapInsert(waiting_params, id, [name |-> name, args |-> <<id, arg>>])
            /\ UNCHANGED <<workers, completed>>
    /\ UNCHANGED <<util_closed, dpc, receive_map, function_map, calls>>

\* Mutant of OnParam: the final chunk forwards the list but the entry is not removed.
OnParam_KeepsPending(id, value, ann) ==
    /\ IF id \in DOMAIN waiting_params
       THEN IF EndsWith(value, BridgeEndLine)
            THEN /\ ForwardByName(waiting_params[id].name,
                                  Append(waiting_params[id].args, Remove(value, BridgeEndLine)), ann)
                 /\ waiting_params' = [waiting_params EXCEPT ![id].args = Append(@, value)]
            ELSE /\ waiting_params' = [waiting_params EXCEPT ![id].args = Append(@, value)]
                 /\ UNCHANGED <<workers, completed>>
       ELSE UNCHANGED <<waiting_params, workers, completed>>
    /\ UNCHANGED <<util_closed, dpc, receive_map, function_map, calls>>

\* Mutant of OnParam: a chunk for an unknown id opens a pending call of its own.
OnParam_CreatesPending(id, value, ann) ==
    /\ IF id \in DOMAIN waiting_params
       THEN IF EndsWith(value, BridgeEndLine)
            THEN /\ ForwardByName(waiting_params[id].name,
                                  Append(waiting_params[id].args, Remove(value, BridgeEndLine)), ann)
                 /\ waiting_params' = MapRemove(waiting_params, id)
            ELSE /\ waiting_params' = [waiting_params EXCEPT ![id].args = Append(@, value)]
                 /\ UNCHANGED <<workers, completed>>
       ELSE /\ waiting_params' = MapInsert(waiting_params, id, [name |-> <<>>, args |-> <<id, value>>])
            /\ UNCHANGED <<workers, completed>>
    /\ UNCHANGED <<util_closed, dpc, receive_map, function_map, calls>>

\* Mutant of OnParam: a chunk is pushed onto every pending call, not only its own.
OnParam_EveryPending(id, value, ann) ==
    /\ IF id \in DOMAIN waiting_params
       THEN IF EndsWith(value, BridgeEndLine)
            THEN /\ ForwardByName(waiting_params[id].name,
                                  Append(waiting_params[id].args, Remove(value, BridgeEndLine)), ann)
                 /\ waiting_params' =
                        [k \in DOMAIN waiting_params \ {id} |->
                            [waiting_params[k] EXCEPT !.args = Append(@, Remove(value, BridgeEndLine))]]
            ELSE /\ waiting_params' =
                        [k \in DOMAIN waiting_params |->
                            [waiting_params[k] EXCEPT !.args = Append(@, value)]]
                 /\ UNCHANGED <<workers, completed>>
       ELSE UNCHANGED <<waiting_params, workers, completed>>
    /\ UNCHANGED <<util_closed, dpc, receive_map, function_map, calls>>

\* "param" arm (lib.rs 171-192)
OnParam(id, value, ann) ==
    /\ IF id \in DOMAIN waiting_params
       THEN IF EndsWith(value, BridgeEndLine)
            THEN /\ ForwardByName(waiting_params[id].name,
                                  Append(waiting_params[id].args, Remove(value, BridgeEndLine)), ann)
                 /\ waiting_params' = MapRemove(waiting_params, id)
            ELSE /\ waiting_params' = [waiting_params EXCEPT ![id].args = Append(@, value)]
                 /\ UNCHANGED <<workers, completed>>
       ELSE UNCHANGED <<waiting_params, workers, completed>>
    /\ UNCHANGED <<util_closed, dpc, receive_map, function_map, calls>>

\* Mutant of OnExit: the sentinel falls through to the catch-all arm.
OnExit_Ignored ==
    UNCHANGED <<util_closed, dpc, receive_map, function_map, waiting_params, calls, workers, completed>>

\* "[bridgeexit]" arm (lib.rs 193-196): util_receiver.close(), then break
OnExit ==
    /\ util_closed' = TRUE
    /\ dpc' = "break"
    /\ UNCHANGED <<receive_map, function_map, waiting_params, calls, workers, completed>>

\* catch-all arm (lib.rs 197)
OnOther ==
    UNCHANGED <<util_closed, dpc, receive_map, function_map, waiting_params, calls, workers, completed>>

\* An unwrap() on None (lib.rs 98, 103, 106, 119, 122, 125, 129, 132, 136, 139, 172):
\* the task panics and its locals, the three maps, are dropped first.
OnPanic ==
    /\ dpc' = "unwind"
    /\ receive_map' = EmptyMap
    /\ function_map' = EmptyMap
    /\ waiting_params' = EmptyMap
    /\ calls' = DropSenders(calls, {"map"})
    /\ UNCHANGED <<util_closed, workers, completed>>

\* UtilType::ReadLine arm (lib.rs 97-199)
OnReadLine(data, ann) ==
    LET d == Decode(data)
    IN  CASE d.kind = "panic" -> OnPanic
          [] d.kind = "torust" -> OnTorust(d.name, d.arg)
          [] d.kind = "function" -> OnFunction(d.name, d.id, d.arg, ann)
          [] d.kind = "param" -> OnParam(d.id, d.arg, ann)
          [] d.kind = "exit" -> OnExit
          [] OTHER -> OnOther

\* Mutant of OnReceive: the replaced waiter's sender is kept alive instead of dropped.
OnReceive_Abandon(name, k) ==
    /\ receive_map' = MapInsert(receive_map, name, k)
    /\ calls' = IF name \in DOMAIN receive_map
                THEN [calls EXCEPT ![k].st = "map", ![receive_map[name]].st = "leaked"]
                ELSE [calls EXCEPT ![k].st = "map"]
    /\ UNCHANGED <<util_closed, dpc, function_map, waiting_params, workers, completed>>

\* UtilType::Receive arm (lib.rs 200-202).  HashMap::insert returns the value it
\* replaces, and the statement drops it: an older waiter's sender is dropped here.
OnReceive(name, k) ==
    /\ receive_map' = MapInsert(receive_map, name, k)
    /\ calls' = IF name \in DOMAIN receive_map
                THEN [calls EXCEPT ![k].st = "map",
                                   ![receive_map[name]].st = "dropped",
                                   ![receive_map[name]].repl = TRUE]
                ELSE [calls EXCEPT ![k].st = "map"]
    /\ UNCHANGED <<util_closed, dpc, function_map, waiting_params, workers, completed>>

\* Mutant of OnRegisterFunction: a name already in function_map keeps its sender.
OnRegisterFunction_KeepsFirst(name, w) ==
    /\ function_map' = IF name \in DOMAIN function_map THEN function_map
                       ELSE MapInsert(function_map, name, w)
    /\ UNCHANGED <<util_closed, dpc, receive_map, waiting_params, calls, workers, completed>>

\* Mutant of OnRegisterFunction: the calls that named the function while it was
\* not registered are handed to its worker now.
OnRegisterFunction_Replays(name, w) ==
    LET dropped == SelectSeq(completed, LAMBDA e : e.to = 0 /\ e.name = name)
    IN  /\ function_map' = MapInsert(function_map, name, w)
        /\ workers' = [workers EXCEPT
                          ![w].q = @ \o [i \in 1..Len(dropped) |-> dropped[i].list]]
        /\ UNCHANGED <<util_closed, dpc, receive_map, waiting_params, calls, completed>>

\* UtilType::RegisterFunction arm (lib.rs 203-205)
OnRegisterFunction(name, w) ==
    /\ function_map' = MapInsert(function_map, name, w)
    /\ UNCHANGED <<util_closed, dpc, receive_map, waiting_params, calls, workers, completed>>

\* The decoded line of a message; a registration carries no line.
LineOf(m) == IF m.type = "ReadLine" THEN Decode(m.data) ELSE Decoded("none", <<>>, <<>>, <<>>)

\* Messages of the function-call traffic: registrations, call and chunk lines.
FnTraffic(m) ==
    \/ m.type = "RegisterFunction"
    \/ LineOf(m).kind \in {"function", "param"}

\* What fnhist keeps of a handled message: the message with its line decoded.
Handled(m) == [type |-> m.type, data |-> m.data, ref |-> m.ref, ann |-> m.ann, line |-> LineOf(m)]

Dispatch ==
    /\ dpc = "recv"
    /\ util_queue # <<>>
    /\ util_queue' = Tail(util_queue)
    /\ LET m == Head(util_queue)
       IN  /\ CASE m.type = "ReadLine" -> OnReadLine(m.data, m.ann)
                [] m.type = "Receive" -> OnReceive(m.data, m.ref)
                [] OTHER -> OnRegisterFunction(m.data, m.ref)
           /\ fnhist' = IF FnTraffic(m) THEN Append(fnhist, Handled(m)) ELSE fnhist
    /\ UNCHANGED <<rpc, nread, sends, stdout, closeSt, regpc>>

\* Mutant of DispatcherDrop: the task starts over with a fresh, open receiver.
DispatcherDrop_Restarts ==
    /\ dpc \in {"break", "unwind"}
    /\ dpc' = "recv"
    /\ util_closed' = FALSE
    /\ util_queue' = <<>>
    /\ receive_map' = EmptyMap
    /\ function_map' = EmptyMap
    /\ waiting_params' = EmptyMap
    /\ calls' = DropSenders(calls, {"map", "queued"})
    /\ UNCHANGED <<rpc, nread, sends, stdout, closeSt, workers, regpc, fnhist, completed>>

\* Mutant of DispatcherDrop: the messages still queued are not dropped.
DispatcherDrop_KeepsQueue ==
    /\ dpc \in {"break", "unwind"}
    /\ dpc' = "done"
    /\ util_closed' = TRUE
    /\ util_queue' = util_queue
    /\ receive_map' = EmptyMap
    /\ function_map' = EmptyMap
    /\ waiting_params' = EmptyMap
    /\ calls' = DropSenders(calls, {"map"})
    /\ UNCHANGED <<rpc, nread, sends, stdout, closeSt, workers, regpc, fnhist, completed>>

\* The end of the dispatcher task.  After break the maps go out of scope and then
\* the task's captured util_receiver; after a panic the maps are gone already.
\* Dropping util_receiver closes the channel and drops every message still queued.
DispatcherDrop ==
    /\ dpc \in {"break", "unwind"}
    /\ dpc' = "done"
    /\ util_closed' = TRUE
    /\ util_queue' = <<>>
    /\ receive_map' = EmptyMap
    /\ function_map' = EmptyMap
    /\ waiting_params' = EmptyMap
    /\ calls' = DropSenders(calls, {"map", "queued"})
    /\ UNCHANGED <<rpc, nread, sends, stdout, closeSt, workers, regpc, fnhist, completed>>

(***************************************************************************)
(* Channels and lifecycle: the lines stdin may yield and the operations    *)
(* the embedding program may call.                                         *)
(***************************************************************************)
ChannelA == <<"channel", "_", "a">>

ChannelFoo == <<"channel", "_", "foo">>

Channels == {ChannelA, ChannelFoo}

Bar == <<"bar">>

Baz == <<"baz">>

ChanLines ==
    { TorustLine(ChannelA, Bar), TorustLine(ChannelA, Baz),
      ExitLine,
      <<"LF">>,                                        \* an empty line
      <<"hello", "_", "world", "LF">>,                 \* no known tag
      <<"torust", "_", "channel", "_", "a", "LF">> }   \* "torust" without its name field

ReadChan == ReadLine(ChanLines, MaxLines)

Send == \E c \in {ChannelFoo} : send(c, Bar)

Receive == \E c \in Channels : receive(c)

NextChan ==
    \/ ReadChan
    \/ Dispatch
    \/ DispatcherDrop
    \/ Send
    \/ Receive
    \/ close
    \/ closeReturn

SpecChan == Init /\ [][NextChan]_vars

\* The scheduler runs a ready task: the dispatcher is polled while a message is
\* queued, and a task awaiting closed() is woken once the channel is closed.
\* Nothing obliges stdin to yield a line or the program to call an operation.
\* A step that takes the head of the queue while dpc = "recv" is a Dispatch step,
\* and Dispatch is enabled whenever a message is queued and dpc = "recv".
DispatchTakes == dpc = "recv" /\ util_queue # <<>> /\ util_queue' = Tail(util_queue)

FairChan ==
    SpecChan /\ WF_util_queue(DispatchTakes) /\ WF_vars(DispatcherDrop) /\ WF_vars(closeReturn)

(***************************************************************************)
(* Function registration and the workers.                                  *)
(*   workers[w] = [name, handler, q, st, why, cur]: the queue behind the   *)
(*   worker's receiver and the worker task: "idle" in recv().await, "busy" *)
(*   in an asynchronous callback's await on the list `cur`, "dead" after a *)
(*   panic (why: "parse" or "callback"), "exit" after its loop broke on    *)
(*   None.                                                                 *)
(***************************************************************************)
Addition == <<"addition">>

NotReturned == [ok |-> FALSE, val |-> 0]

\* The crate example's add (lib.rs 21-23): params[0] + params[1]; indexing
\* panics when fewer than two parameters were passed.
add(params) ==
    IF Len(params) < 2 THEN NotReturned
    ELSE [ok |-> TRUE, val |-> params[1] + params[2]]

\* register (lib.rs 283-295), its first statement: the announcement
register(name, max) ==
    /\ regpc.st = "idle"
    /\ Len(workers) < max
    /\ stdout' = Append(stdout, RegisterRecord(name))
    /\ regpc' = [st |-> "announced", name |-> name, handler |-> "add"]
    /\ UNCHANGED <<dispatcherVars, rpc, nread, calls, sends, closeSt, workers, fnhist, completed>>

\* register (lib.rs 292-313), the rest: the function's queue is created, its
\* sender goes to the dispatcher in a RegisterFunction message and the worker is
\* spawned on its receiver.
registerSpawn ==
    /\ regpc.st = "announced"
    /\ util_queue' = UtilSend(RegisterFunctionMsg(regpc.name, Len(workers) + 1))
    /\ workers' = Append(workers, [name |-> regpc.name, handler |-> regpc.handler,
                                   q |-> <<>>, st |-> "idle", why |-> "", cur |-> <<>>])
    /\ regpc' = [st |-> "idle", name |-> <<>>, handler |-> ""]
    /\ UNCHANGED <<util_closed, dpc, receive_map, function_map, waiting_params,
                   rpc, nread, calls, sends, stdout, closeSt, fnhist, completed>>

\* params.iter().map(|x| x.parse::<B>().unwrap()).collect() (lib.rs 301), B = i32
ParseAll(params) ==
    [ok  |-> \A i \in 1..Len(params) : ParseI32(params[i]).ok,
     val |-> [i \in 1..Len(params) |-> ParseI32(params[i]).val]]

\* The worker's Some(params) arm (lib.rs 299-307): the id is taken off, every
\* parameter is parsed, the function is called and its result is written.  A
\* panic ends the task and drops the receiver with whatever is queued.
WorkerCall(w) ==
    LET params == Head(workers[w].q)
        o      == ParseAll(Tail(params))
    IN  IF ~o.ok
        THEN /\ workers' = [workers EXCEPT ![w].st = "dead", ![w].why = "parse", ![w].q = <<>>]
             /\ stdout' = stdout
        ELSE IF ~add(o.val).ok
        THEN /\ workers' = [workers EXCEPT ![w].st = "dead", ![w].why = "callback", ![w].q = <<>>]
             /\ stdout' = stdout
        ELSE /\ workers' = [workers EXCEPT ![w].q = Tail(@)]
             /\ stdout' = Append(stdout, ResponseRecord(params[1], I32ToString(add(o.val).val)))

\* One iteration of a worker's loop on a queued argument list (lib.rs 297-307)
Worker ==
    \E w \in 1..Len(workers) :
        /\ workers[w].handler = "add"
        /\ workers[w].st = "idle"
        /\ workers[w].q # <<>>
        /\ WorkerCall(w)
        /\ UNCHANGED <<dispatcherVars, rpc, nread, calls, sends, closeSt, regpc, fnhist, completed>>

\* A sender of the worker's queue exists: in function_map or in a queued message.
SenderAlive(w) ==
    \/ \E n \in DOMAIN function_map : function_map[n] = w
    \/ \E i \in 1..Len(util_queue) :
          util_queue[i].type = "RegisterFunction" /\ util_queue[i].ref = w

\* The worker's None arm (lib.rs 308-310): the queue is empty and every sender is gone.
WorkerExit ==
    \E w \in 1..Len(workers) :
        /\ workers[w].st = "idle"
        /\ workers[w].q = <<>>
        /\ ~SenderAlive(w)
        /\ workers' = [workers EXCEPT ![w].st = "exit"]
        /\ UNCHANGED <<dispatcherVars, rpc, nread, calls, sends, stdout, closeSt, regpc,
                       fnhist, completed>>

One == <<"1">>

Two == <<"2">>

Ten == <<"1", "0">>

Twenty == <<"2", "0">>

Five == <<"5">>

FnLines ==
    { FunctionLine(Addition, One, NoArgText),
      FunctionLine(Addition, One, Ten),
      ParamLine(One, Five),
      ParamLine(One, Twenty \o BridgeEndLine),
      FunctionLine(Addition, Two, <<"x">> \o BridgeEndLine),
      ExitLine }

ReadFn == ReadLine(FnLines, MaxFnLines)

Register == register(Addition, MaxRegs)

NextFn ==
    \/ ReadFn
    \/ Dispatch
    \/ DispatcherDrop
    \/ Register
    \/ registerSpawn
    \/ Worker
    \/ WorkerExit

SpecFn == Init /\ [][NextFn]_vars

(***************************************************************************)
(* Registering a name twice: the calls of one function around a second     *)
(* registration of its name.                                               *)
(***************************************************************************)
MaxFns == 2

MaxRegLines == 2

RegLines ==
    { FunctionLine(Addition, One, Ten),
      ParamLine(One, Twenty \o BridgeEndLine),
      FunctionLine(Addition, Two, Five \o BridgeEndLine) }

ReadReg == ReadLine(RegLines, MaxRegLines)

RegisterAgain == register(Addition, MaxFns)

NextReg ==
    \/ ReadReg
    \/ Dispatch
    \/ RegisterAgain
    \/ registerSpawn
    \/ Worker
    \/ WorkerExit

SpecReg == Init /\ [][NextReg]_vars

(***************************************************************************)
(* Asynchronous functions (lib.rs 317-345) next to a synchronous one.      *)
(***************************************************************************)
FindLonger == <<"find", "_", "longer">>

\* String::len (lib.rs 27).  The arguments of the scenarios are digit strings,
\* one byte to the token.
StrLen(str) == Len(str)

\* The crate example's find_longer (lib.rs 25-31); indexing panics when fewer
\* than two parameters were passed.
find_longer(params) ==
    IF Len(params) < 2 THEN NotReturned
    ELSE [ok |-> TRUE,
          val |-> IF StrLen(params[1]) > StrLen(params[2]) THEN params[1] ELSE params[2]]

\* register_async (lib.rs 317-323), its first statement: the announcement.  The
\* rest (lib.rs 324-344) is registerSpawn with the asynchronous worker.
register_async(name, max) ==
    /\ regpc.st = "idle"
    /\ Len(workers) < max
    /\ stdout' = Append(stdout, RegisterRecord(name))
    /\ regpc' = [st |-> "announced", name |-> name, handler |-> "find_longer"]
    /\ UNCHANGED <<dispatcherVars, rpc, nread, calls, sends, closeSt, workers, fnhist, completed>>

\* Mutant of AsyncCall: while the callback is pending the other workers are held.
AsyncCall_HoldsOthers ==
    \E w \in 1..Len(workers) :
        /\ workers[w].handler = "find_longer"
        /\ workers[w].st = "idle"
        /\ workers[w].q # <<>>
        /\ workers' = [v \in 1..Len(workers) |->
                          IF v = w
                          THEN [workers[v] EXCEPT !.st = "busy", !.cur = Head(workers[w].q),
                                                  !.q = Tail(@)]
                          ELSE IF workers[v].st = "idle"
                          THEN [workers[v] EXCEPT !.st = "held"]
                          ELSE workers[v]]
        /\ UNCHANGED <<dispatcherVars, rpc, nread, calls, sends, stdout, closeSt, regpc,
                       fnhist, completed>>

\* Mutant of AsyncCall: the worker takes the next list while a callback is still
\* pending, and the call it was on goes back to the front of the queue.
AsyncCall_Overtakes ==
    \E w \in 1..Len(workers) :
        /\ workers[w].handler = "find_longer"
        /\ workers[w].st \in {"idle", "busy"}
        /\ workers[w].q # <<>>
        /\ workers' = [workers EXCEPT
                          ![w].st = "busy",
                          ![w].cur = Head(workers[w].q),
                          ![w].q = IF workers[w].st = "busy"
                                   THEN <<workers[w].cur>> \o Tail(workers[w].q)
                                   ELSE Tail(workers[w].q)]
        /\ UNCHANGED <<dispatcherVars, rpc, nread, calls, sends, stdout, closeSt, regpc,
                       fnhist, completed>>

\* The asynchronous worker's Some(params) arm up to the await (lib.rs 331-336):
\* the list is dequeued, the id taken off, the callback's future created and
\* awaited; the future is pending.
AsyncCall ==
    \E w \in 1..Len(workers) :
        /\ workers[w].handler = "find_longer"
        /\ workers[w].st = "idle"
        /\ workers[w].q # <<>>
        /\ workers' = [workers EXCEPT ![w].st = "busy", ![w].cur = Head(workers[w].q),
                                      ![w].q = Tail(@)]
        /\ UNCHANGED <<dispatcherVars, rpc, nread, calls, sends, stdout, closeSt, regpc,
                       fnhist, completed>>

\* The awaited callback completes (lib.rs 333-337): its result is written as the
\* response, or its panic ends the worker task and drops the receiver.
AsyncReturn ==
    \E w \in 1..Len(workers) :
        /\ workers[w].st = "busy"
        /\ LET id  == workers[w].cur[1]
               res == find_longer(Tail(workers[w].cur))
           IN  IF res.ok
               THEN /\ stdout' = Append(stdout, ResponseRecord(id, res.val))
                    /\ workers' = [workers EXCEPT ![w].st = "idle", ![w].cur = <<>>]
               ELSE /\ stdout' = stdout
                    /\ workers' = [workers EXCEPT ![w].st = "dead", ![w].why = "callback",
                                                  ![w].cur = <<>>, ![w].q = <<>>]
        /\ UNCHANGED <<dispatcherVars, rpc, nread, calls, sends, closeSt, regpc,
                       fnhist, completed>>

MaxAsyncLines == 3

AsyncLines ==
    { FunctionLine(FindLonger, Two, NoArgText),
      FunctionLine(Addition, One, Ten),
      ParamLine(One, Twenty \o BridgeEndLine) }

ReadAsync == ReadLine(AsyncLines, MaxAsyncLines)

\* The registrations of the crate example's main (lib.rs 14-15), in its order.
RegisterAdd == workers = <<>> /\ register(Addition, MaxFns)

RegisterFindLonger == Len(workers) = 1 /\ register_async(FindLonger, MaxFns)

NextAsync ==
    \/ ReadAsync
    \/ Dispatch
    \/ RegisterAdd
    \/ RegisterFindLonger
    \/ registerSpawn
    \/ Worker
    \/ AsyncCall
    \/ AsyncReturn

SpecAsync == Init /\ [][NextAsync]_vars

\* The dispatcher task and the synchronous workers are tasks of their own and
\* run when they are ready; when, and whether, an asynchronous callback returns
\* is up to the callback.
\* A ready synchronous worker takes the head of its queue: receiver.recv().await
\* returns (lib.rs 298).
WorkerTakes ==
    \E w \in 1..Len(workers) :
        /\ workers[w].handler = "add"
        /\ workers[w].st = "idle"
        /\ workers[w].q # <<>>
        /\ workers' = [workers EXCEPT ![w].q = Tail(@)]

FairAsync == SpecAsync /\ WF_util_queue(DispatchTakes) /\ WF_workers(WorkerTakes)

(***************************************************************************)
(* The reader and the dispatcher around the end of the bridge.  The        *)
(* dispatcher leaves on any line whose text before the first `_` is        *)
(* `[bridgeexit]` (lib.rs 98, 193); the reader leaves on the line          *)
(* `[bridgeexit]_` alone (lib.rs 213).                                     *)
(***************************************************************************)
MaxExitLines == 2

ExitNowLine == <<"[", "bridgeexit", "]", "_", "now", "LF">>

ExitLines == {ExitLine, ExitNowLine, TorustLine(ChannelA, Bar)}

ReadExit == ReadLine(ExitLines, MaxExitLines)

NextExit ==
    \/ ReadExit
    \/ Dispatch
    \/ DispatcherDrop
    \/ Receive
    \/ Send

SpecExit == Init /\ [][NextExit]_vars

(***************************************************************************)
(* Two multi-chunk calls with different ids, their chunks arriving in any   *)
(* order.                                                                  *)
(***************************************************************************)
MaxMixLines == 4

MixLines ==
    { FunctionLine(Addition, One, Ten),
      ParamLine(One, Twenty \o BridgeEndLine),
      FunctionLine(Addition, Two, Five),
      ParamLine(Two, Ten \o BridgeEndLine) }

ReadMix == ReadLine(MixLines, MaxMixLines)

NextMix ==
    \/ ReadMix
    \/ Dispatch
    \/ RegisterAdd
    \/ registerSpawn
    \/ Worker

SpecMix == Init /\ [][NextMix]_vars

(***************************************************************************)
(* Deliveries for one channel and receives registered before and after     *)
(* them.                                                                   *)
(***************************************************************************)
MaxBufLines == 2

BufLines == {TorustLine(ChannelA, Bar), TorustLine(ChannelA, Baz)}

ReadBuf == ReadLine(BufLines, MaxBufLines)

NextBuf ==
    \/ ReadBuf
    \/ Dispatch
    \/ Receive

SpecBuf == Init /\ [][NextBuf]_vars

(***************************************************************************)
(* Two calls in a row to each of the crate example's functions.  The calls *)
(* share their first argument and their id; the final chunk tells them     *)
(* apart: 10 + 20 and 10 + 5 for addition, "20" and "10" for find_longer.  *)
(***************************************************************************)
MaxOrdLines == 4

OrdLines ==
    { FunctionLine(Addition, One, Ten),
      FunctionLine(FindLonger, One, Ten),
      ParamLine(One, Twenty \o BridgeEndLine),
      ParamLine(One, Five \o BridgeEndLine) }

\* The peer calls the functions once both are announced.
ReadOrd ==
    /\ {Addition, FindLonger} \subseteq Announced
    /\ ReadLine(OrdLines, MaxOrdLines)

NextOrd ==
    \/ ReadOrd
    \/ Dispatch
    \/ RegisterAdd
    \/ RegisterFindLonger
    \/ registerSpawn
    \/ Worker
    \/ AsyncCall
    \/ AsyncReturn

SpecOrd == Init /\ [][NextOrd]_vars

(***************************************************************************)
(* Notions the properties below are stated with.                           *)
(***************************************************************************)
\* The dispatcher is taking this message from the channel in this step.
Handling(type) ==
    /\ dpc = "recv"
    /\ util_queue # <<>>
    /\ Head(util_queue).type = type
    /\ util_queue' = Tail(util_queue)

\* The dispatcher is handling a line that decodes to `kind` in this step.
HandlingLine(kind) ==
    /\ Handling("ReadLine")
    /\ Decode(Head(util_queue).data).kind = kind

\* receive() calls whose registration the dispatcher has handled.
Registered(cs) == {k \in 1..Len(cs) : cs[k].st \notin {"queued", "self"}}

Fulfilled(cs) == {k \in 1..Len(cs) : cs[k].st = "sent"}

\* Where the oneshot sender of the k-th receive() call is.
SenderOf(k) == IF k <= Len(calls) THEN calls[k].st ELSE "none"

Highest(S) == CHOOSE k \in S : \A j \in S : j <= k

(***************************************************************************)
(* C1.  Once close() has returned, every later send returns the           *)
(* closed-bridge error and every later receive returns the closed-bridge  *)
(* error: it is neither fulfilled with a payload nor left suspended.      *)
(***************************************************************************)
C1_ErrorsAfterClose ==
    /\ \A i \in 1..Len(sends) : sends[i].late => sends[i].res = "BridgeClosedError"
    /\ \A k \in 1..Len(calls) : calls[k].late => Outcome(calls[k]) = "BridgeClosedError"

(***************************************************************************)
(* C2.  Once the reader has passed on the exit sentinel, is_closed()      *)
(* eventually reports true; every receive pending when it does, whether   *)
(* its waiter is in receive_map or its registration is still queued,      *)
(* resolves to the closed-bridge error; and from then on no receive is    *)
(* fulfilled with a payload.                                              *)
(***************************************************************************)
C2_SentinelCloses ==
    /\ (rpc = "done") ~> is_closed
    /\ \A k \in 1..MaxReceives :
          (is_closed /\ SenderOf(k) \in {"queued", "map"}) ~> (SenderOf(k) = "dropped")
    /\ [][is_closed => Fulfilled(calls') \subseteq Fulfilled(calls)]_vars

C2_Witness ==
    /\ rpc = "done"
    /\ nread = 1
    /\ dpc = "done"
    /\ is_closed
    /\ Len(calls) = 2
    /\ \A k \in 1..2 : calls[k].st = "dropped" /\ ~calls[k].repl

(***************************************************************************)
(* C3.  A channel delivery (c, p) handled by the running dispatcher        *)
(* fulfils the most recently registered receive(c), if it is still        *)
(* waiting, with p, and nothing else: at most one call is fulfilled in a  *)
(* step, its waiter has left receive_map, and the waiters of the other    *)
(* channels and all other calls are as they were.                         *)
(***************************************************************************)
C3_DeliveryStep ==
    LET new == Fulfilled(calls') \ Fulfilled(calls)
        d   == Decode(Head(util_queue).data)
    IN  /\ Cardinality(new) <= 1
        /\ \A k \in new :
              /\ HandlingLine("torust")
              /\ d.name = calls[k].ch
              /\ calls'[k].val = d.arg
              /\ k = Highest({j \in Registered(calls) : calls[j].ch = d.name})
              /\ d.name \notin DOMAIN receive_map'
              /\ \A c \in (DOMAIN receive_map \cup DOMAIN receive_map') \ {d.name} :
                    /\ c \in DOMAIN receive_map \cap DOMAIN receive_map'
                    /\ receive_map'[c] = receive_map[c]
              /\ \A j \in (1..Len(calls)) \ {k} : calls'[j] = calls[j]
        /\ (HandlingLine("torust") /\ d.name \in DOMAIN receive_map)
              => receive_map[d.name] \in new

C3_OneWaiterPerDelivery ==
    /\ [](\A c \in DOMAIN receive_map : calls[receive_map[c]].st = "map")
    /\ [][C3_DeliveryStep]_vars

C3_Witness ==
    \E k \in 1..Len(calls) :
        /\ calls[k].st = "sent"
        /\ calls[k].val = Baz
        /\ \E j \in 1..Len(calls) : calls[j].st = "map" /\ calls[j].ch # calls[k].ch

CallIds == {One, Two}

\* A function record opening a multi-chunk call: an argument without the end marker.
IsFirstChunk(m, id) ==
    /\ m.line.kind = "function"
    /\ m.line.id = id
    /\ m.line.arg # NoArgText
    /\ ~EndsWith(m.line.arg, BridgeEndLine)

IsMiddleChunk(m, id) ==
    /\ m.line.kind = "param"
    /\ m.line.id = id
    /\ ~EndsWith(m.line.arg, BridgeEndLine)

IsFinalChunk(m, id) ==
    /\ m.line.kind = "param"
    /\ m.line.id = id
    /\ EndsWith(m.line.arg, BridgeEndLine)

\* Between positions m and n of h only middle chunks bear the call id.
OnlyMiddleBetween(h, m, n, id) ==
    \A j \in (m + 1)..(n - 1) :
        (h[j].line.kind \in {"function", "param"} /\ h[j].line.id = id)
            => IsMiddleChunk(h[j], id)

\* h[m] .. h[n] hold one multi-chunk call: first chunk, middle chunks, final chunk.
MultiChunkCall(h, m, n, id) ==
    /\ m < n
    /\ IsFirstChunk(h[m], id)
    /\ IsFinalChunk(h[n], id)
    /\ OnlyMiddleBetween(h, m, n, id)

StripMarker(chunk) == SubSeq(chunk, 1, Len(chunk) - Len(BridgeEndLine))

\* The chunks of the call from h[m] on, in arrival order, up to position n - 1.
ChunksFrom(h, m, n, id) ==
    LET mid == SelectSeq(SubSeq(h, m + 1, n - 1), LAMBDA x : IsMiddleChunk(x, id))
    IN  <<h[m].line.arg>> \o [j \in 1..Len(mid) |-> mid[j].line.arg]

\* The worker registered last under `name` among the first n - 1 messages of h, or 0.
RegisteredWorker(h, name, n) ==
    LET regs == {j \in 1..(n - 1) : h[j].type = "RegisterFunction" /\ h[j].data = name}
    IN  IF regs = {} THEN 0 ELSE h[Highest(regs)].ref

\* Argument lists with call id `id` handed over while messages m..n were handled.
ForwardedIn(m, n, id) ==
    {e \in 1..Len(completed) :
        /\ completed[e].list[1] = id
        /\ completed[e].at \in m..n}

C5_Reassembled ==
    \A id \in CallIds : \A m, n \in 1..Len(fnhist) :
        MultiChunkCall(fnhist, m, n, id) =>
            /\ Cardinality(ForwardedIn(m, n, id)) = 1
            /\ \A e \in ForwardedIn(m, n, id) :
                  /\ completed[e].at = n
                  /\ completed[e].name = fnhist[m].line.name
                  /\ completed[e].list = <<id>> \o ChunksFrom(fnhist, m, n, id)
                                              \o <<StripMarker(fnhist[n].line.arg)>>
                  /\ completed[e].to = RegisteredWorker(fnhist, completed[e].name, n)

\* h[m] opens a call with id `id` that no later message of h completes or reopens.
StillOpen(h, m, id) ==
    /\ IsFirstChunk(h[m], id)
    /\ \A j \in (m + 1)..Len(h) : ~IsFirstChunk(h[j], id) /\ ~IsFinalChunk(h[j], id)

C5_PendingIsOpenCall ==
    \A id \in CallIds :
        LET h     == fnhist
            opens == {m \in 1..Len(h) : StillOpen(h, m, id)}
        IN  id \in DOMAIN waiting_params =>
                /\ opens # {}
                /\ \A m \in opens :
                      /\ waiting_params[id].name = h[m].line.name
                      /\ waiting_params[id].args = <<id>> \o ChunksFrom(h, m, Len(h) + 1, id)

C5_HandOverStep ==
    \A id \in CallIds :
        (HandlingLine("param") /\ IsFinalChunk(Handled(Head(util_queue)), id)
                               /\ id \in DOMAIN waiting_params) =>
            /\ id \notin DOMAIN waiting_params'
            /\ Len(completed') = Len(completed) + 1
            /\ LET e == completed'[Len(completed')]
               IN  /\ e.list = Append(waiting_params[id].args,
                                      StripMarker(LineOf(Head(util_queue)).arg))
                   /\ (e.to # 0 /\ workers[e.to].st = "idle") =>
                          workers'[e.to].q = Append(workers[e.to].q, e.list)

(***************************************************************************)
(* C5.  A multi-chunk call (a function record with a non-final first      *)
(* chunk, then middle param chunks, then one final param chunk, all with  *)
(* one call id) hands exactly one argument list to the function: the call *)
(* id followed by all its chunks in arrival order, the end marker         *)
(* stripped, sent to the queue of the worker registered under the name    *)
(* when the final chunk is handled.  Nothing is handed over before the    *)
(* final chunk, until then waiting_params holds exactly the chunks so     *)
(* far, and the final chunk removes the entry.                            *)
(***************************************************************************)
C5_MultiChunkOneInvocation ==
    /\ [](C5_Reassembled /\ C5_PendingIsOpenCall)
    /\ [][C5_HandOverStep]_vars

C5_Witness ==
    \E e \in 1..Len(completed) :
        /\ completed[e].list = <<One, Ten, Five, Twenty>>
        /\ completed[e].to # 0
        /\ One \notin DOMAIN waiting_params
        /\ workers[completed[e].to].q = <<>>
        /\ \E i \in 1..Len(stdout) : stdout[i] = ResponseRecord(One, <<"1", "5">>)

ResponsePrefix(id) == <<"fnresponse", "_">> \o id \o <<"_">>

\* Responses written for call id `id`.
ResponsesFor(id) ==
    {i \in 1..Len(stdout) :
        /\ Len(stdout[i]) >= Len(ResponsePrefix(id))
        /\ SubSeq(stdout[i], 1, Len(ResponsePrefix(id))) = ResponsePrefix(id)}

\* Calls handed to a registered function, with two arguments that parse.
AnswerableCalls(id) ==
    {e \in 1..Len(completed) :
        /\ completed[e].to # 0
        /\ completed[e].list[1] = id
        /\ Len(completed[e].list) >= 3
        /\ ParseAll(Tail(completed[e].list)).ok}

(***************************************************************************)
(* C6.  Every completed call to a registered function whose arguments     *)
(* parse is answered by exactly one response record with the call's id    *)
(* and the function's result: once the function's worker has nothing left *)
(* queued (and the function itself did not panic), each such call of add  *)
(* has its response with the sum on the output, and a call id has no more *)
(* responses than calls.                                                  *)
(***************************************************************************)
C6_OneResponsePerCall ==
    \A id \in CallIds :
        /\ \A e \in AnswerableCalls(id) :
              LET w == workers[completed[e].to]
                  o == ParseAll(Tail(completed[e].list)).val
              IN  (w.q = <<>> /\ w.why # "callback") =>
                      \E i \in ResponsesFor(id) :
                          stdout[i] = ResponseRecord(id, I32ToString(add(o).val))
        /\ Cardinality(ResponsesFor(id))
              <= Cardinality({e \in 1..Len(completed) :
                                 completed[e].to # 0 /\ completed[e].list[1] = id})

(***************************************************************************)
(* C7.  A record that fails to decode is dropped without effect: handling *)
(* it writes nothing, leaves the dispatcher in its loop and the bridge     *)
(* open, and changes no correlation state and no receive call.            *)
(***************************************************************************)
C7_DecodeFailureStep ==
    (HandlingLine("panic") \/ HandlingLine("drop")) =>
        /\ dpc' = "recv"
        /\ ~is_closed'
        /\ UNCHANGED <<receive_map, function_map, waiting_params, calls, stdout, workers>>

C7_DecodeFailureDropped == [][C7_DecodeFailureStep]_vars

(***************************************************************************)
(* C8.  An argument that does not parse aborts only that invocation: the  *)
(* function's worker does not crash on it.                                *)
(***************************************************************************)
C8_WorkerSurvivesParseFailure ==
    \A w \in 1..Len(workers) : ~(workers[w].st = "dead" /\ workers[w].why = "parse")

(***************************************************************************)
(* C9.  No call is lost to a race with registration: a call carried by    *)
(* one record that the reader took in after the function's announcement   *)
(* was written finds the function registered when the dispatcher handles  *)
(* it and is handed to the function's worker.                             *)
(***************************************************************************)
C9_NoCallLostToRace ==
    \A e \in 1..Len(completed) :
        (Len(completed[e].list) <= 2 /\ completed[e].name \in completed[e].ann)
            => completed[e].to # 0

LineNumbers(ms) ==
    LET rl == SelectSeq(ms, LAMBDA m : m.type = "ReadLine")
    IN  [j \in 1..Len(rl) |-> rl[j].ref]

Increasing(ns) == \A i, j \in 1..Len(ns) : i < j => ns[i] < ns[j]

\* The lines handled so far and the lines still queued are in the order read.
C11_InReadOrder ==
    /\ Increasing(LineNumbers(fnhist) \o LineNumbers(util_queue))
    /\ \A i \in 1..Len(LineNumbers(util_queue)) : LineNumbers(util_queue)[i] <= nread
    /\ \A e \in 1..Len(completed) :
          /\ completed[e].at \in 1..Len(fnhist)
          /\ \A d \in 1..(e - 1) : completed[d].at < completed[e].at

\* A step with an effect on the correlation state is the running dispatcher
\* taking the head of the queue, and the effect is that message's.
C11_HeadOnlyStep ==
    (dpc = "recv" /\ <<receive_map, function_map, waiting_params, completed, fnhist>>'
                       # <<receive_map, function_map, waiting_params, completed, fnhist>>) =>
        /\ util_queue # <<>>
        /\ util_queue' = Tail(util_queue)
        /\ fnhist' # fnhist => fnhist' = Append(fnhist, Handled(Head(util_queue)))
        /\ Len(completed') <= Len(completed) + 1
        /\ function_map' # function_map =>
              /\ Head(util_queue).type = "RegisterFunction"
              /\ function_map' = MapInsert(function_map, Head(util_queue).data, Head(util_queue).ref)
        /\ waiting_params' # waiting_params =>
              /\ LineOf(Head(util_queue)).kind \in {"function", "param"}
              /\ \A id \in (DOMAIN waiting_params \cup DOMAIN waiting_params')
                              \ {LineOf(Head(util_queue)).id} :
                    /\ id \in DOMAIN waiting_params \cap DOMAIN waiting_params'
                    /\ waiting_params'[id] = waiting_params[id]

(***************************************************************************)
(* C11.  The dispatcher handles the records one at a time in the order    *)
(* the reader took them in, with registrations interleaved in the same    *)
(* queue: the lines handled and the lines queued carry increasing line    *)
(* numbers, hand-overs to function queues follow the order of the lines   *)
(* that caused them, and every change of a map is the effect of the       *)
(* message at the head of the queue, which that step removes.             *)
(***************************************************************************)
C11_RecordsInOrder ==
    /\ []C11_InReadOrder
    /\ [][C11_HeadOnlyStep]_vars

C11_Witness ==
    /\ Len(fnhist) = 3
    /\ fnhist[1].type = "ReadLine" /\ IsFirstChunk(fnhist[1], One)
    /\ fnhist[2].type = "RegisterFunction"
    /\ fnhist[3].type = "ReadLine" /\ IsFinalChunk(fnhist[3], One)
    /\ LineNumbers(fnhist) = <<1, 2>>
    /\ LineNumbers(util_queue) = <<3>>
    /\ \E e \in 1..Len(completed) : completed[e].at = 3 /\ completed[e].to # 0

\* The lifecycle state: Running while the dispatcher is in its loop, Closing
\* from the exit arm or a panic until the task has ended, Closed after.
Lifecycle ==
    CASE dpc = "recv" -> "Running"
      [] dpc = "done" -> "Closed"
      [] OTHER -> "Closing"

LifecycleRank(l) == CASE l = "Running" -> 0 [] l = "Closing" -> 1 [] OTHER -> 2

C12_LifecycleStep ==
    /\ LifecycleRank(Lifecycle') >= LifecycleRank(Lifecycle)
    /\ LifecycleRank(Lifecycle') <= LifecycleRank(Lifecycle) + 1
    /\ is_closed => is_closed'

(***************************************************************************)
(* C12.  The lifecycle is linear: every step keeps the state or moves it  *)
(* one place along Running, Closing, Closed; is_closed() is false while   *)
(* Running and true when Closed; and once is_closed() is true it is true  *)
(* in every later state, whatever is sent, received or read afterwards.   *)
(***************************************************************************)
C12_LifecycleLinear ==
    /\ [](Lifecycle = "Running" => ~is_closed)
    /\ [](Lifecycle = "Closed" => is_closed)
    /\ [][C12_LifecycleStep]_vars

C12_Witness ==
    /\ Lifecycle = "Closed"
    /\ is_closed
    /\ nread = 2
    /\ rpc = "loop"
    /\ \E i \in 1..Len(sends) : sends[i].res = "BridgeClosedError"
    /\ \E k \in 1..Len(calls) : calls[k].st = "self"

\* Every hand-over went to the worker registered last under the name when the
\* call completed, and function_map holds the last registration of each name.
C13_NewestRegistration ==
    /\ \A e \in 1..Len(completed) :
          completed[e].to = RegisteredWorker(fnhist, completed[e].name, completed[e].at)
    /\ dpc = "recv" =>
          \A w \in 1..Len(workers) :
              LET current == RegisteredWorker(fnhist, workers[w].name, Len(fnhist) + 1)
              IN  (workers[w].name \in DOMAIN function_map
                      /\ function_map[workers[w].name] = w) <=> current = w

\* A worker's queue grows only while its sender is the one in function_map.
C13_OnlyNewestStep ==
    \A w \in 1..Len(workers) :
        Len(workers'[w].q) > Len(workers[w].q) =>
            /\ workers[w].name \in DOMAIN function_map
            /\ function_map[workers[w].name] = w

(***************************************************************************)
(* C13.  A name has one handler: once the dispatcher has handled a second *)
(* registration of a name, every call to the name completed afterwards,   *)
(* also a multi-chunk call whose first chunk came before it, is handed to *)
(* the newer worker's queue, and the older worker's queue gets nothing    *)
(* more.                                                                  *)
(***************************************************************************)
C13_ReplacedHandler ==
    /\ []C13_NewestRegistration
    /\ [][C13_OnlyNewestStep]_vars

C13_Witness ==
    /\ Len(fnhist) = 4
    /\ fnhist[1].type = "RegisterFunction" /\ fnhist[1].ref = 1
    /\ IsFirstChunk(fnhist[2], One)
    /\ fnhist[3].type = "RegisterFunction" /\ fnhist[3].ref = 2
    /\ IsFinalChunk(fnhist[4], One)
    /\ Len(completed) = 1
    /\ completed[1].to = 2
    /\ completed[1].list = <<One, Ten, Twenty>>
    /\ workers[1].st = "exit"
    /\ workers[2].q = <<>>
    /\ \E i \in 1..Len(stdout) : stdout[i] = ResponseRecord(One, <<"3", "0">>)

\* A list is queued for a synchronous function.
SyncQueued == \E w \in 1..Len(workers) : workers[w].handler = "add" /\ workers[w].q # <<>>

\* A pending callback keeps its list, and its worker's queue keeps what it holds.
C14_PendingStep ==
    \A w \in 1..Len(workers) :
        (workers[w].st = "busy" /\ workers'[w].st = "busy") =>
            /\ workers'[w].cur = workers[w].cur
            /\ Len(workers'[w].q) >= Len(workers[w].q)

(***************************************************************************)
(* C14.  Concurrency is per function: a pending asynchronous callback     *)
(* holds back only the queue of its own worker.  The lists queued for a   *)
(* synchronous function are taken and answered and the messages queued    *)
(* for the dispatcher are handled, also in the behaviours where the       *)
(* callback of another function stays pending forever.                    *)
(***************************************************************************)
C14_PerFunctionConcurrency ==
    /\ SyncQueued ~> ~SyncQueued
    /\ (dpc = "recv" /\ util_queue # <<>>) ~> (util_queue = <<>>)
    /\ [][C14_PendingStep]_vars

C14_Witness ==
    /\ Len(workers) = 2
    /\ workers[2].st = "busy"
    /\ workers[2].cur = <<Two>>
    /\ Len(completed) = 2
    /\ completed[1].to = 2
    /\ completed[2].to = 1
    /\ completed[2].list = <<One, Ten, Twenty>>
    /\ workers[1].q = <<>>
    /\ \E i \in 1..Len(stdout) : stdout[i] = ResponseRecord(One, <<"3", "0">>)

C15_UnknownParamStep ==
    (HandlingLine("param") /\ LineOf(Head(util_queue)).id \notin DOMAIN waiting_params) =>
        /\ UNCHANGED <<receive_map, function_map, waiting_params, workers, completed,
                       stdout, calls>>
        /\ dpc' = "recv"
        /\ ~is_closed'

(***************************************************************************)
(* C15.  A param chunk, final or not, whose call id has no entry in       *)
(* waiting_params is dropped silently: handling it hands nothing to any   *)
(* function, writes nothing, creates no entry, leaves receive_map,        *)
(* function_map and every other pending call as they were, and the        *)
(* dispatcher stays in its loop.                                          *)
(***************************************************************************)
C15_UnknownParamDropped == [][C15_UnknownParamStep]_vars

C15_Witness ==
    /\ Len(fnhist) = 3
    /\ fnhist[1].type = "RegisterFunction"
    /\ IsFinalChunk(fnhist[2], One)
    /\ IsMiddleChunk(fnhist[3], One)
    /\ completed = <<>>
    /\ waiting_params = EmptyMap
    /\ Addition \in DOMAIN function_map
    /\ workers[1].q = <<>> /\ workers[1].st = "idle"
    /\ stdout = <<RegisterRecord(Addition)>>
    /\ dpc = "recv"

(***************************************************************************)
(* C16.  When the bridge is Closed the reader's loop is over too: once    *)
(* the dispatcher task has ended, with is_closed() true, the reader takes *)
(* in no further line.                                                    *)
(***************************************************************************)
C16_ReaderStopsWhenClosed ==
    [][(dpc = "done" /\ is_closed) => nread' = nread]_vars

\* Two multi-chunk calls whose chunks interleave in h: each has a chunk between
\* the first and the final chunk of the other, or encloses it.
Interleaved(h, m, n, p, q) == m < q /\ p < n

\* The one hand-over of the call h[m]..h[n] with id `id` carries its own chunks.
OwnChunksOnly(h, m, n, id) ==
    /\ Cardinality(ForwardedIn(m, n, id)) = 1
    /\ \A e \in ForwardedIn(m, n, id) :
          /\ completed[e].at = n
          /\ completed[e].name = h[m].line.name
          /\ Tail(completed[e].list) =
                ChunksFrom(h, m, n, id) \o <<StripMarker(h[n].line.arg)>>

C17_EachItsOwnChunks ==
    \A i \in CallIds : \A m, n \in 1..Len(fnhist) :
        MultiChunkCall(fnhist, m, n, i) =>
            \A j \in CallIds \ {i} : \A p, q \in 1..Len(fnhist) :
                (MultiChunkCall(fnhist, p, q, j) /\ Interleaved(fnhist, m, n, p, q)) =>
                    /\ OwnChunksOnly(fnhist, m, n, i)
                    /\ OwnChunksOnly(fnhist, p, q, j)

\* Handling a chunk of one call leaves the pending entry of every other call alone.
C17_OtherCallsStep ==
    \A id \in CallIds :
        (HandlingLine("param") /\ LineOf(Head(util_queue)).id = id) =>
            \A other \in CallIds \ {id} :
                /\ other \in DOMAIN waiting_params <=> other \in DOMAIN waiting_params'
                /\ other \in DOMAIN waiting_params =>
                      waiting_params'[other] = waiting_params[other]

(***************************************************************************)
(* C17.  Multi-chunk calls with different call ids whose chunks arrive    *)
(* interleaved are reassembled independently: each is handed over once,   *)
(* at its own final chunk, under its own function name, with exactly its  *)
(* own chunks in their arrival order, and a chunk of one call never       *)
(* changes the pending entry of another.                                  *)
(***************************************************************************)
C17_InterleavedCalls ==
    /\ []C17_EachItsOwnChunks
    /\ [][C17_OtherCallsStep]_vars

C17_Witness ==
    /\ \E m, p, n, q \in 1..Len(fnhist) :
          /\ m < p /\ p < n /\ n < q
          /\ IsFirstChunk(fnhist[m], One)
          /\ IsFirstChunk(fnhist[p], Two)
          /\ IsFinalChunk(fnhist[n], One)
          /\ IsFinalChunk(fnhist[q], Two)
    /\ Len(completed) = 2
    /\ completed[1].list = <<One, Ten, Twenty>>
    /\ completed[2].list = <<Two, Five, Ten>>
    /\ stdout = <<RegisterRecord(Addition), ResponseRecord(One, <<"3", "0">>),
                  ResponseRecord(Two, <<"1", "5">>)>>

\* A delivery handled while its channel has no waiter leaves nothing behind.
C18_DiscardStep ==
    (HandlingLine("torust") /\ LineOf(Head(util_queue)).name \notin DOMAIN receive_map) =>
        UNCHANGED <<receive_map, function_map, waiting_params, calls, workers, stdout,
                    completed, fnhist>>

\* A receive is fulfilled by the delivery being handled, and only if its
\* registration was handled before.
C18_FulfilStep ==
    \A k \in Fulfilled(calls') \ Fulfilled(calls) :
        /\ k \in Registered(calls)
        /\ calls[k].st = "map"
        /\ HandlingLine("torust")
        /\ LineOf(Head(util_queue)).name = calls[k].ch
        /\ calls'[k].val = LineOf(Head(util_queue)).arg

(***************************************************************************)
(* C18.  Deliveries are never buffered: a delivery handled while no       *)
(* receive of its channel is registered is discarded without a trace, and *)
(* a receive is fulfilled only by a delivery handled after its own        *)
(* registration; a receive registered after all deliveries so far waits.  *)
(***************************************************************************)
C18_NeverBuffered ==
    /\ [][C18_DiscardStep]_vars
    /\ [][C18_FulfilStep]_vars
    /\ [](\A k \in 1..Len(calls) :
             calls[k].st = "sent" => \E v \in {Bar, Baz} : calls[k].val = v)

C18_Witness ==
    /\ nread = 2
    /\ util_queue = <<>>
    /\ Len(calls) = 1
    /\ calls[1].ch = ChannelA
    /\ calls[1].st = "map"
    /\ ChannelA \in DOMAIN receive_map

\* The call completed in this step named a function that is not registered.
DropsCall ==
    /\ Len(completed') = Len(completed) + 1
    /\ completed'[Len(completed')].to = 0

\* Completing a call to an unregistered function changes nothing but the
\* pending call it closes.
C19_DropStep ==
    DropsCall =>
        /\ UNCHANGED <<workers, stdout, receive_map, function_map, calls>>
        /\ dpc' = "recv"
        /\ ~is_closed'
        /\ HandlingLine("param") =>
              /\ LineOf(Head(util_queue)).id \in DOMAIN waiting_params
              /\ waiting_params' = MapRemove(waiting_params, LineOf(Head(util_queue)).id)
        /\ HandlingLine("function") => waiting_params' = waiting_params

\* A list reaches a worker's queue only in the step that completes its call, and
\* a new worker starts with an empty queue.
C19_QueueStep ==
    \A w \in 1..Len(workers') :
        IF w > Len(workers) THEN workers'[w].q = <<>>
        ELSE Len(workers'[w].q) > Len(workers[w].q) =>
                /\ Len(completed') = Len(completed) + 1
                /\ completed'[Len(completed')].to = w
                /\ workers'[w].q = Append(workers[w].q, completed'[Len(completed')].list)

(***************************************************************************)
(* C19.  A call whose function is not in function_map when the call       *)
(* completes is dropped silently: nothing is handed to a worker, nothing  *)
(* is written, the dispatcher stays in its loop, a multi-chunk call's     *)
(* entry leaves waiting_params with its final chunk, and no later step,   *)
(* a registration included, hands the dropped call to a worker; while     *)
(* every completed call was dropped the output holds no response.         *)
(***************************************************************************)
C19_UnregisteredCallDropped ==
    /\ [][C19_DropStep]_vars
    /\ [][C19_QueueStep]_vars
    /\ []((\A e \in 1..Len(completed) : completed[e].to = 0) =>
             \A i \in 1..Len(stdout) : stdout[i] = RegisterRecord(Addition))

C19_Witness ==
    /\ Len(completed) = 1
    /\ completed[1].to = 0
    /\ completed[1].name = Addition
    /\ completed[1].list = <<One, Ten, Twenty>>
    /\ waiting_params = EmptyMap
    /\ util_queue = <<>>
    /\ dpc = "recv"
    /\ Addition \in DOMAIN function_map
    /\ workers[function_map[Addition]].q = <<>>
    /\ workers[function_map[Addition]].st = "idle"
    /\ stdout = <<RegisterRecord(Addition)>>

\* The calls handed to worker w, in the order the dispatcher forwarded them.
ForwardedTo(w) == SelectSeq(completed, LAMBDA e : e.to = w)

\* The response worker w writes for an argument list its callback returns on.
ResponseOf(w, list) ==
    IF workers[w].handler = "add"
    THEN ResponseRecord(list[1], I32ToString(add(ParseAll(Tail(list)).val).val))
    ELSE ResponseRecord(list[1], find_longer(Tail(list)).val)

Answers(w) == [i \in 1..Len(ForwardedTo(w)) |-> ResponseOf(w, ForwardedTo(w)[i].list)]

\* The responses of worker w on the output, in the order they were written.
Written(w) == SelectSeq(stdout, LAMBDA r : \E i \in 1..Len(Answers(w)) : r = Answers(w)[i])

InProgress(w) == IF workers[w].st = "busy" THEN 1 ELSE 0

\* What a worker has written is the responses of the calls forwarded to it, in
\* forwarded order, up to the call it is on; the rest waits in its queue.
C20_InOrder ==
    \A w \in 1..Len(workers) :
        workers[w].st \in {"idle", "busy"} =>
            LET done == Len(ForwardedTo(w)) - Len(workers[w].q) - InProgress(w)
            IN  /\ done >= 0
                /\ Written(w) = SubSeq(Answers(w), 1, done)
                /\ workers[w].st = "busy" => workers[w].cur = ForwardedTo(w)[done + 1].list
                /\ \A i \in 1..Len(workers[w].q) :
                      workers[w].q[i] = ForwardedTo(w)[done + InProgress(w) + i].list

\* A worker takes a list only while no invocation of its function is in
\* progress, and it takes the head of its queue.
C20_DequeueStep ==
    \A w \in 1..Len(workers) :
        (workers'[w].q # workers[w].q /\ Len(workers'[w].q) <= Len(workers[w].q)
            /\ workers'[w].st # "dead") =>
            /\ workers[w].st = "idle"
            /\ workers'[w].q = Tail(workers[w].q)
            /\ IF workers[w].handler = "add"
               THEN /\ workers'[w].st = "idle"
                    /\ stdout' = Append(stdout, ResponseOf(w, Head(workers[w].q)))
               ELSE /\ workers'[w].st = "busy"
                    /\ workers'[w].cur = Head(workers[w].q)
                    /\ stdout' = stdout

\* An invocation in progress ends by writing its response, the queue untouched.
C20_ReturnStep ==
    \A w \in 1..Len(workers) :
        (workers[w].st = "busy" /\ workers'[w].st # "busy") =>
            /\ workers'[w].q = workers[w].q
            /\ workers'[w].st = "idle"
            /\ stdout' = Append(stdout, ResponseOf(w, workers[w].cur))

(***************************************************************************)
(* C20.  Each registered function, synchronous or asynchronous, has at    *)
(* most one invocation in progress, and its responses are written in the  *)
(* order the dispatcher forwarded its calls: the worker takes the head of *)
(* its queue only when idle, and the response of the call it is on is     *)
(* written before it takes the next.                                      *)
(***************************************************************************)
C20_OneAtATimeInOrder ==
    /\ []C20_InOrder
    /\ [][C20_DequeueStep]_vars
    /\ [][C20_ReturnStep]_vars

C20_Witness ==
    /\ Len(workers) = 2
    /\ workers[2].handler = "find_longer"
    /\ Len(ForwardedTo(2)) = 2
    /\ workers[2].st = "busy"
    /\ workers[2].cur = <<One, Ten, Five>>
    /\ workers[2].q = <<>>
    /\ Written(2) = <<ResponseRecord(One, Twenty)>>
====
